---- MODULE Spec2Model ----
(***************************************************************************)
(* Gesture recognizer and mode state machine of the gesture controller,    *)
(* driven by the host loop of main.py.                                     *)
(*                                                                         *)
(* Time is counted in ticks of 0.1 s, the common unit of every duration    *)
(* the code compares against (0.3 s, 0.5 s, 1.0 s, 2.0 s).  The code keeps *)
(* absolute time stamps (last_music_check, last_browser_check,             *)
(* last_gesture_time) and only ever uses them in a difference              *)
(* current_time - stamp compared with a constant; the model keeps these    *)
(* differences, saturated at the largest constant they are compared with,  *)
(* so that the clock can run for ever in a finite state space.             *)
(* Finger values are counted in thousandths, so that the Euclidean         *)
(* distance test sqrt(d2) < 5 * 0.015 is the integer test d2 < 75 * 75.    *)
(*                                                                         *)
(* One iteration of the `while True` loop of main() is four steps, in the  *)
(* order of the source: the music check, the browser check, the camera     *)
(* frame, the key press (which also loops back and reads the clock).       *)
(* The 'q' key (leave the loop) is not modelled: the model is the running  *)
(* loop.  The 's' key (screenshot) touches the executor only and is a step *)
(* of ExecSpec.                                                            *)
(*                                                                         *)
(* Spec and LiveSpec are the loop with its two probes.  HarnessSpec is the *)
(* same frame handler and key handler behind a stub tracker, which may     *)
(* hand over any vector, and stub probes, which may request any automatic  *)
(* transition at any time.  ClassifySpec calls recognize_gesture directly  *)
(* with every binary finger vector.  TrajSpec drives the trajectory        *)
(* detector alone, and TrackSpec is the frame handler with its calls into  *)
(* the trajectory detector, which feeds nothing back into the loop.        *)
(* ExecSpec is the frame handler with its calls into ActionExecutor: the   *)
(* cooldown of mouse actions and continuous browser scrolling.  The        *)
(* trajectory fields and the executor fields keep their initial values in  *)
(* the specifications that leave them out.                                 *)
(***************************************************************************)
EXTENDS Integers, Sequences, FiniteSets, TLC

VARIABLES
    \* GestureRecognizer fields
    mode,                 \* self.mode
    gesture_history,      \* self.gesture_history, deque(maxlen=5)
    current_gesture,      \* self.current_gesture ("None" for None)
    since_gesture,        \* time.time() - self.last_gesture_time (negative: the stamp is ahead)
    \* locals of main()
    since_music_check,    \* current_time - last_music_check
    since_browser_check,  \* current_time - last_browser_check
    last_known_mode,
    music_mode_override,
    current_mode,         \* the local current_mode, "UNSET" before its first assignment
    music_playing,        \* the local music_playing
    ret_gesture,          \* the local current_gesture of the frame ("None" for None)
    is_new_gesture,       \* the local is_new_gesture of the frame
    executed,             \* the action handed to execute_action in the frame ("None" if none)
    finger_vector,        \* the local finger_states of the frame (<<>> when there is none)
    pc,                   \* position in the loop body
    toggled,              \* history variable: the toggle_mode calls of this loop iteration
    held_trigger,         \* history variable: the gesture that triggered a manual transition
                          \* less than 1.0 s ago and was presented in every frame since
    since_manual,         \* history variable: the time since that transition
    since_fire,           \* history variable: <<time since ONE..FOUR last fired in MAIN,
                          \* whether reset() was called since>>, the time saturated at
                          \* 0.3 s and the flag dropped there
    after_loss,           \* history variable: <<G, n>> when G was the confirmed gesture at
                          \* the last frame without finger states and the n frames since
                          \* (n <= 3) all presented G; <<"None", 0>> otherwise
    \* environment
    music_probe,          \* what is_music_playing() reports now
    browser_probe,        \* what is_browser_active() reports now
    palette,              \* the inputs presented in this run (hand shapes; fingertip
                          \* positions where the trajectory detector is driven)
    \* parts of the recognizer that feed nothing back into the loop
    raw_gesture,          \* the local recognized_gesture once the matching loop is done
    trajectory_history,   \* self.trajectory_history, deque(maxlen=10), of <<x, y>>
    dynamic_gesture,      \* the local dynamic_gesture ("None" for None)
    \* ActionExecutor fields, which feed nothing back into the loop either
    since_action,         \* time.time() - self.action_timestamp
    browser_scroll_direction, \* self.browser_scroll_direction ("None" for None, which
                          \* is also when browser_scroll_active is False)
    scroll_fresh,         \* browser_scroll_last_time was set in the current tick
    performed,            \* the action execute_action carried out in the frame
    scrolled              \* update_browser_scroll sent a scroll event in the frame

vars == <<mode, gesture_history, current_gesture, since_gesture,
          since_music_check, since_browser_check, last_known_mode,
          music_mode_override, current_mode, music_playing, ret_gesture,
          is_new_gesture, executed, pc, toggled, held_trigger, since_manual,
          after_loss, since_fire,
          music_probe, browser_probe, palette, finger_vector,
          raw_gesture, trajectory_history, dynamic_gesture,
          since_action, browser_scroll_direction, scroll_fresh, performed, scrolled>>

recognizerVars == <<mode, gesture_history, current_gesture, since_gesture>>
frameVars == <<ret_gesture, is_new_gesture, executed, finger_vector>>
envVars == <<music_probe, browser_probe, palette>>
heldVars == <<held_trigger, since_manual, after_loss, since_fire>>
sideVars == <<raw_gesture, trajectory_history, dynamic_gesture>>
executorVars == <<since_action, browser_scroll_direction, scroll_fresh, performed,
                  scrolled>>

----------------------------------------------------------------------------
(* Bounds of the model *)

\* ticks one loop iteration may take at most
MaxFrameTicks == 1

----------------------------------------------------------------------------
(* config.py and the constants written in the code *)

FINGER_STATE_THRESHOLD == 15
GESTURE_COOLDOWN == 5
MUSIC_GESTURE_COOLDOWN == 3
MagnitudeCooldown == 3
GraceTicks == 10
music_check_interval == 10
browser_check_interval == 20
HistoryMaxLen == 5
mouse_action_cooldown == 5
Infinity == 100000000

Max(a, b) == IF a >= b THEN a ELSE b

\* since_gesture is only compared with the three cooldowns
GestureAgeCap == Max(GESTURE_COOLDOWN, Max(MUSIC_GESTURE_COOLDOWN, MagnitudeCooldown))

\* a time difference dt ticks later, saturated at cap
Advance(age, dt, cap) == IF age + dt >= cap THEN cap ELSE age + dt

Modes == {"MAIN", "MOUSE", "BROWSER", "MUSIC"}

GestureOrder == <<"FIST", "PALM", "ONE", "TWO", "THREE", "FOUR", "ROCK", "THUMBS_UP">>

GestureNames == {GestureOrder[i] : i \in 1..Len(GestureOrder)}

GESTURES ==
    [g \in GestureNames |->
        CASE g = "FIST"      -> <<0, 0, 0, 0, 0>>
          [] g = "PALM"      -> <<1000, 1000, 1000, 1000, 1000>>
          [] g = "ONE"       -> <<0, 1000, 0, 0, 0>>
          [] g = "TWO"       -> <<0, 1000, 1000, 0, 0>>
          [] g = "THREE"     -> <<0, 1000, 1000, 1000, 0>>
          [] g = "FOUR"      -> <<0, 1000, 1000, 1000, 1000>>
          [] g = "ROCK"      -> <<0, 1000, 0, 0, 1000>>
          [] g = "THUMBS_UP" -> <<1000, 0, 0, 0, 0>>]

GESTURE_ACTIONS ==
    [g \in GestureNames |->
        CASE g = "ONE"   -> "volume_up"
          [] g = "TWO"   -> "volume_down"
          [] g = "THREE" -> "brightness_up"
          [] g = "FOUR"  -> "brightness_down"
          [] g = "ROCK"  -> "screenshot"
          [] g = "PALM"  -> "toggle_mode"
          [] OTHER       -> "None"]

MOUSE_GESTURE_ACTIONS ==
    [g \in GestureNames |->
        CASE g = "ONE"   -> "mouse_move"
          [] g = "TWO"   -> "mouse_click_left"
          [] g = "THREE" -> "mouse_click_right"
          [] g = "FOUR"  -> "mouse_double_click"
          [] g = "FIST"  -> "toggle_mode"
          [] g = "PALM"  -> "toggle_mode"
          [] OTHER       -> "None"]

BROWSER_GESTURE_ACTIONS ==
    [g \in GestureNames |->
        CASE g = "ONE"       -> "browser_refresh"
          [] g = "TWO"       -> "browser_back"
          [] g = "THREE"     -> "browser_forward"
          [] g = "FOUR"      -> "browser_reopen_tab"
          [] g = "FIST"      -> "browser_scroll_down"
          [] g = "ROCK"      -> "browser_switch_tab"
          [] g = "THUMBS_UP" -> "browser_scroll_up"
          [] OTHER           -> "None"]

MUSIC_GESTURE_ACTIONS ==
    [g \in GestureNames |->
        CASE g = "ONE"       -> "music_play_pause"
          [] g = "TWO"       -> "music_next"
          [] g = "THREE"     -> "music_previous"
          [] g = "FOUR"      -> "music_volume_up"
          [] g = "FIST"      -> "music_volume_down"
          [] g = "THUMBS_UP" -> "music_like"
          [] g = "PALM"      -> "toggle_mode"
          [] OTHER           -> "None"]

----------------------------------------------------------------------------
(* Inputs of the model *)

\* a hand shape that equals no template (thumb and index extended)
UnmatchedShape == <<1000, 1000, 0, 0, 0>>

\* each run presents the templates of one of these sets, and UnmatchedShape
Palettes == {{"PALM"}, {"TWO"}}

FingerInputs(p) == {GESTURES[g] : g \in p} \cup {UnmatchedShape}

----------------------------------------------------------------------------
(* GestureRecognizer *)

RECURSIVE SumSq(_, _, _)
SumSq(s1, s2, i) ==
    IF i > Len(s1) THEN 0
    ELSE (s1[i] - s2[i]) * (s1[i] - s2[i]) + SumSq(s1, s2, i + 1)

\* variant: no length test, the sum runs over the zipped pairs
StateDistanceSq_Zip(states1, states2) ==
    LET n == IF Len(states1) <= Len(states2) THEN Len(states1) ELSE Len(states2)
    IN  SumSq(SubSeq(states1, 1, n), SubSeq(states2, 1, n), 1)

\* the square of _calculate_state_distance
StateDistanceSq(states1, states2) ==
    IF Len(states1) # Len(states2) THEN Infinity
    ELSE SumSq(states1, states2, 1)

\* variant: the bound lets a vector with one finger off pass
AcceptBoundSq_OneFingerOff == (1000 * 1000) + 1

AcceptBoundSq == (FINGER_STATE_THRESHOLD * 5) * (FINGER_STATE_THRESHOLD * 5)

\* the matching loop: acc is <<min_distance squared, recognized_gesture>>
RECURSIVE MatchLoop(_, _, _)
MatchLoop(finger_states, i, acc) ==
    IF i > Len(GestureOrder) THEN acc[2]
    ELSE LET distance == StateDistanceSq(finger_states, GESTURES[GestureOrder[i]])
         IN  IF distance < acc[1] /\ distance < AcceptBoundSq
             THEN MatchLoop(finger_states, i + 1, <<distance, GestureOrder[i]>>)
             ELSE MatchLoop(finger_states, i + 1, acc)

Classify(finger_states) == MatchLoop(finger_states, 1, <<Infinity, "None">>)

\* deque(maxlen=5).append
DequeAppend(h, g) ==
    IF Len(h) < HistoryMaxLen THEN Append(h, g) ELSE Append(Tail(h), g)

\* variant: two equal classifications in a row confirm
LastThreeSame_TwoSuffice(h) ==
    /\ Len(h) >= 2
    /\ h[Len(h)] = h[Len(h) - 1]

LastThreeSame(h) ==
    /\ Len(h) >= 3
    /\ h[Len(h)] = h[Len(h) - 1]
    /\ h[Len(h) - 1] = h[Len(h) - 2]

\* variant: nothing is returned as new while last_gesture_time is ahead
TriggerPolicy_GraceBlocks(m, g, is_new, age, cooldown, music_cooldown) ==
    IF age < 0 THEN <<g, FALSE, age>>
    ELSE IF m = "MOUSE" /\ g \in {"ONE", "PALM"}
    THEN <<g, is_new, age>>
    ELSE IF m = "MAIN" /\ g \in {"ONE", "TWO", "THREE", "FOUR"}
    THEN IF age >= MagnitudeCooldown THEN <<g, TRUE, 0>> ELSE <<g, FALSE, age>>
    ELSE IF m = "BROWSER"
    THEN IF is_new \/ age >= cooldown THEN <<g, is_new, 0>> ELSE <<g, FALSE, age>>
    ELSE IF m = "MUSIC"
    THEN IF is_new \/ age >= music_cooldown THEN <<g, is_new, 0>> ELSE <<g, FALSE, age>>
    ELSE IF is_new \/ age >= cooldown THEN <<g, is_new, 0>> ELSE <<g, FALSE, age>>

\* variant: ONE..FOUR in MAIN follow the rule of the other gestures
TriggerPolicy_MagnitudeEdge(m, g, is_new, age, cooldown, music_cooldown) ==
    IF m = "MOUSE" /\ g \in {"ONE", "PALM"}
    THEN <<g, is_new, age>>
    ELSE IF m = "BROWSER"
    THEN IF is_new \/ age >= cooldown THEN <<g, is_new, 0>> ELSE <<g, FALSE, age>>
    ELSE IF m = "MUSIC"
    THEN IF is_new \/ age >= music_cooldown THEN <<g, is_new, 0>> ELSE <<g, FALSE, age>>
    ELSE IF is_new \/ age >= cooldown THEN <<g, is_new, 0>> ELSE <<g, FALSE, age>>

\* variant: the continuous MOUSE gestures are returned as new, as line 85 does
TriggerPolicy_ContinuousAlwaysNew(m, g, is_new, age, cooldown, music_cooldown) ==
    IF m = "MOUSE" /\ g \in {"ONE", "PALM"}
    THEN <<g, TRUE, age>>
    ELSE IF m = "MAIN" /\ g \in {"ONE", "TWO", "THREE", "FOUR"}
    THEN IF age >= MagnitudeCooldown THEN <<g, TRUE, 0>> ELSE <<g, FALSE, age>>
    ELSE IF m = "BROWSER"
    THEN IF is_new \/ age >= cooldown THEN <<g, is_new, 0>> ELSE <<g, FALSE, age>>
    ELSE IF m = "MUSIC"
    THEN IF is_new \/ age >= music_cooldown THEN <<g, is_new, 0>> ELSE <<g, FALSE, age>>
    ELSE IF is_new \/ age >= cooldown THEN <<g, is_new, 0>> ELSE <<g, FALSE, age>>

\* variant: a gesture re-announced after its cooldown is returned as new
TriggerPolicy_CooldownRenews(m, g, is_new, age, cooldown, music_cooldown) ==
    IF m = "MOUSE" /\ g \in {"ONE", "PALM"}
    THEN <<g, is_new, age>>
    ELSE IF m = "MAIN" /\ g \in {"ONE", "TWO", "THREE", "FOUR"}
    THEN IF age >= MagnitudeCooldown THEN <<g, TRUE, 0>> ELSE <<g, FALSE, age>>
    ELSE IF m = "BROWSER"
    THEN IF is_new \/ age >= cooldown THEN <<g, TRUE, 0>> ELSE <<g, FALSE, age>>
    ELSE IF m = "MUSIC"
    THEN IF is_new \/ age >= music_cooldown THEN <<g, TRUE, 0>> ELSE <<g, FALSE, age>>
    ELSE IF is_new \/ age >= cooldown THEN <<g, TRUE, 0>> ELSE <<g, FALSE, age>>

\* variant: the fast-repeat rule fires without renewing last_gesture_time
TriggerPolicy_RepeatKeepsStamp(m, g, is_new, age, cooldown, music_cooldown) ==
    IF m = "MOUSE" /\ g \in {"ONE", "PALM"}
    THEN <<g, is_new, age>>
    ELSE IF m = "MAIN" /\ g \in {"ONE", "TWO", "THREE", "FOUR"}
    THEN IF age >= MagnitudeCooldown THEN <<g, TRUE, age>> ELSE <<g, FALSE, age>>
    ELSE IF m = "BROWSER"
    THEN IF is_new \/ age >= cooldown THEN <<g, is_new, 0>> ELSE <<g, FALSE, age>>
    ELSE IF m = "MUSIC"
    THEN IF is_new \/ age >= music_cooldown THEN <<g, is_new, 0>> ELSE <<g, FALSE, age>>
    ELSE IF is_new \/ age >= cooldown THEN <<g, is_new, 0>> ELSE <<g, FALSE, age>>

\* the trigger policy of recognize_gesture once a gesture is confirmed; age is
\* current_time - last_gesture_time.  The result is
\* <<returned gesture, returned is_new, current_time - last_gesture_time afterwards>>
TriggerPolicy(m, g, is_new, age, cooldown, music_cooldown) ==
    IF m = "MOUSE" /\ g \in {"ONE", "PALM"}
    THEN <<g, is_new, age>>
    ELSE IF m = "MAIN" /\ g \in {"ONE", "TWO", "THREE", "FOUR"}
    THEN IF age >= MagnitudeCooldown THEN <<g, TRUE, 0>> ELSE <<g, FALSE, age>>
    ELSE IF m = "BROWSER"
    THEN IF is_new \/ age >= cooldown THEN <<g, is_new, 0>> ELSE <<g, FALSE, age>>
    ELSE IF m = "MUSIC"
    THEN IF is_new \/ age >= music_cooldown THEN <<g, is_new, 0>> ELSE <<g, FALSE, age>>
    ELSE IF is_new \/ age >= cooldown THEN <<g, is_new, 0>> ELSE <<g, FALSE, age>>

\* variant: a matched frame that does not complete three in a row forgets the
\* confirmed gesture
RecognizeGesture_NoiseForgets(finger_states, m, hist, cur, age) ==
    IF finger_states = <<>>
    THEN [gesture |-> "None", is_new |-> FALSE, hist |-> hist, cur |-> cur, age |-> age]
    ELSE LET recognized_gesture == Classify(finger_states)
         IN  IF recognized_gesture # "None"
             THEN LET h == DequeAppend(hist, recognized_gesture)
                  IN  IF LastThreeSame(h)
                      THEN LET r == TriggerPolicy(m, recognized_gesture,
                                                  cur # recognized_gesture, age,
                                                  GESTURE_COOLDOWN, MUSIC_GESTURE_COOLDOWN)
                           IN  [gesture |-> r[1], is_new |-> r[2], hist |-> h,
                                cur |-> recognized_gesture, age |-> r[3]]
                      ELSE [gesture |-> "None", is_new |-> FALSE, hist |-> h,
                            cur |-> "None", age |-> age]
             ELSE [gesture |-> "None", is_new |-> FALSE, hist |-> <<>>,
                   cur |-> "None", age |-> age]

\* recognize_gesture: the returned pair and the recognizer fields after the call
RecognizeGesture(finger_states, m, hist, cur, age) ==
    IF finger_states = <<>>
    THEN [gesture |-> "None", is_new |-> FALSE, hist |-> hist, cur |-> cur, age |-> age]
    ELSE LET recognized_gesture == Classify(finger_states)
         IN  IF recognized_gesture # "None"
             THEN LET h == DequeAppend(hist, recognized_gesture)
                  IN  IF LastThreeSame(h)
                      THEN LET r == TriggerPolicy(m, recognized_gesture,
                                                  cur # recognized_gesture, age,
                                                  GESTURE_COOLDOWN, MUSIC_GESTURE_COOLDOWN)
                           IN  [gesture |-> r[1], is_new |-> r[2], hist |-> h,
                                cur |-> recognized_gesture, age |-> r[3]]
                      ELSE [gesture |-> cur, is_new |-> FALSE, hist |-> h,
                            cur |-> cur, age |-> age]
             ELSE [gesture |-> "None", is_new |-> FALSE, hist |-> <<>>,
                   cur |-> "None", age |-> age]

\* get_gesture_action
GetGestureAction(m, g) ==
    IF m = "MUSIC" THEN MUSIC_GESTURE_ACTIONS[g]
    ELSE IF m = "MOUSE" THEN MOUSE_GESTURE_ACTIONS[g]
    ELSE IF m = "BROWSER" THEN BROWSER_GESTURE_ACTIONS[g]
    ELSE GESTURE_ACTIONS[g]

\* variant: the target mode is ignored and every call toggles manually
ToggleTarget_IgnoresTarget(m, target_mode) ==
    IF m = "MAIN" THEN "MOUSE" ELSE "MAIN"

\* variant: the manual toggle cycles through all four modes
ToggleTarget_Cycles(m, target_mode) ==
    IF target_mode # "None" THEN target_mode
    ELSE IF m = "MAIN" THEN "MOUSE"
    ELSE IF m = "MOUSE" THEN "BROWSER"
    ELSE IF m = "BROWSER" THEN "MUSIC"
    ELSE "MAIN"

\* variant: self.mode = target_mode is assigned unconditionally
ToggleTarget_AssignsNone(m, target_mode) == target_mode

\* the mode toggle_mode selects; target_mode "None" is the manual toggle
ToggleTarget(m, target_mode) ==
    IF target_mode # "None" THEN target_mode
    ELSE IF m = "MAIN" THEN "MOUSE"
    ELSE IF m = "MOUSE" THEN "MAIN"
    ELSE IF m = "BROWSER" THEN "MAIN"
    ELSE IF m = "MUSIC" THEN "MAIN"
    ELSE m

\* variant: toggle_mode clears the debounce history
ToggleHistory_Clears(h) == <<>>

\* the debounce history toggle_mode leaves behind
ToggleHistory(h) == h

\* current_time - last_gesture_time after toggle_mode has set the stamp 1.0 s ahead
ToggleGrace == 0 - GraceTicks

\* toggle_mode(current_gesture_name, target_mode); kind names the call site
toggle_mode(current_gesture_name, target_mode, kind) ==
    /\ mode' = ToggleTarget(mode, target_mode)
    /\ gesture_history' = ToggleHistory(gesture_history)
    /\ current_gesture' = current_gesture_name
    /\ since_gesture' = ToggleGrace
    /\ toggled' = Append(toggled, kind)

----------------------------------------------------------------------------
(* The host loop of main() *)

NoLoss == <<"None", 0>>

\* the gestures of line 82
MagnitudeGestures == {"ONE", "TWO", "THREE", "FOUR"}

NoFire == <<MagnitudeCooldown, FALSE>>

\* since_fire dt ticks later; reset tells whether reset() is called meanwhile
FireAdvance(f, dt, reset) ==
    LET a == Advance(f[1], dt, MagnitudeCooldown)
    IN  <<a, a < MagnitudeCooldown /\ (f[2] \/ reset)>>

\* after_loss after a frame that hands finger states fs (<<>>: none) to a
\* recognizer whose confirmed gesture is cur
AfterLoss(fs, cur, loss) ==
    IF fs = <<>> THEN <<cur, 0>>
    ELSE IF loss[1] # "None" /\ Classify(fs) = loss[1] /\ loss[2] < 3
    THEN <<loss[1], loss[2] + 1>>
    ELSE NoLoss

\* the state at the first `while True` iteration: the three stamps are 0 and
\* time.time() is further ahead than every interval
Init ==
    /\ mode = "MAIN"
    /\ gesture_history = <<>>
    /\ current_gesture = "None"
    /\ since_gesture = GestureAgeCap
    /\ since_music_check = music_check_interval
    /\ since_browser_check = browser_check_interval
    /\ last_known_mode = "MAIN"
    /\ music_mode_override = FALSE
    /\ current_mode = "UNSET"
    /\ music_playing = FALSE
    /\ ret_gesture = "None"
    /\ is_new_gesture = FALSE
    /\ executed = "None"
    /\ pc = "music"
    /\ toggled = <<>>
    /\ held_trigger = "None"
    /\ since_manual = GraceTicks
    /\ after_loss = NoLoss
    /\ since_fire = NoFire
    /\ music_probe \in BOOLEAN
    /\ browser_probe \in BOOLEAN
    /\ palette \in Palettes
    /\ finger_vector = <<>>
    /\ raw_gesture = "None"
    /\ trajectory_history = <<>>
    /\ dynamic_gesture = "None"
    /\ since_action = mouse_action_cooldown
    /\ browser_scroll_direction = "None"
    /\ scroll_fresh = FALSE
    /\ performed = "None"
    /\ scrolled = FALSE

MusicCheckDue == since_music_check >= music_check_interval

BrowserCheckDue == since_browser_check >= browser_check_interval

\* the mode-to-restore recorded by an automatic entry into MUSIC
MusicRecordedMode(override, recorded, cur_mode) ==
    IF ~override THEN cur_mode ELSE recorded

\* lines 142-155, music playing and not in MUSIC: enter MUSIC
MusicCheckEnter ==
    /\ pc = "music"
    /\ MusicCheckDue
    /\ music_probe /\ mode # "MUSIC"
    /\ since_music_check' = 0
    /\ music_playing' = music_probe
    /\ current_mode' = mode
    /\ last_known_mode' = MusicRecordedMode(music_mode_override, last_known_mode, mode)
    /\ music_mode_override' = TRUE
    /\ toggle_mode("None", "MUSIC", "music_enter")
    /\ pc' = "browser"
    /\ UNCHANGED <<since_browser_check, frameVars, heldVars, envVars, sideVars,
                   executorVars>>

\* lines 142-148, the check is due and switches nothing
MusicCheckIdle ==
    /\ pc = "music"
    /\ MusicCheckDue
    /\ ~(music_probe /\ mode # "MUSIC")
    /\ since_music_check' = 0
    /\ music_playing' = music_probe
    /\ current_mode' = mode
    /\ pc' = "browser"
    /\ UNCHANGED <<recognizerVars, toggled, since_browser_check, last_known_mode,
                   music_mode_override, frameVars, heldVars, envVars, sideVars,
                   executorVars>>

\* variant: the restore is taken while music is playing
MusicRestoreGuard_Playing(playing, cur_mode) == playing /\ cur_mode = "MUSIC"

\* the guard of the elif at line 157
MusicRestoreGuard(playing, cur_mode) == ~playing /\ cur_mode = "MUSIC"

\* lines 157-163, the elif of the due test: leave MUSIC for the recorded mode
MusicRestore ==
    /\ pc = "music"
    /\ ~MusicCheckDue
    /\ MusicRestoreGuard(music_playing, current_mode)
    /\ music_mode_override' = FALSE
    /\ toggle_mode("None", last_known_mode, "music_restore")
    /\ last_known_mode' = "MAIN"
    /\ pc' = "browser"
    /\ UNCHANGED <<since_music_check, since_browser_check, current_mode,
                   music_playing, frameVars, heldVars, envVars, sideVars,
                   executorVars>>

\* neither branch of lines 142-163 applies
MusicNoCheck ==
    /\ pc = "music"
    /\ ~MusicCheckDue
    /\ ~MusicRestoreGuard(music_playing, current_mode)
    /\ pc' = "browser"
    /\ UNCHANGED <<recognizerVars, toggled, since_music_check, since_browser_check,
                   last_known_mode, music_mode_override, current_mode,
                   music_playing, frameVars, heldVars, envVars, sideVars,
                   executorVars>>

\* variant: the browser check is never skipped
BrowserSuppressed_Never(override) == FALSE

\* line 166: the browser check is skipped while music_mode_override is set
BrowserSuppressed(override) == override

\* lines 166-168, the browser check is skipped or not yet due
BrowserNoCheck ==
    /\ pc = "browser"
    /\ BrowserSuppressed(music_mode_override) \/ ~BrowserCheckDue
    /\ pc' = "frame"
    /\ UNCHANGED <<recognizerVars, toggled, since_music_check, since_browser_check,
                   last_known_mode, music_mode_override, current_mode,
                   music_playing, frameVars, heldVars, envVars, sideVars,
                   executorVars>>

\* lines 168-180, browser focused and not in BROWSER: enter BROWSER
BrowserCheckEnter ==
    /\ pc = "browser"
    /\ ~BrowserSuppressed(music_mode_override) /\ BrowserCheckDue
    /\ browser_probe /\ mode # "BROWSER"
    /\ since_browser_check' = 0
    /\ current_mode' = mode
    /\ last_known_mode' = mode
    /\ toggle_mode("None", "BROWSER", "browser_enter")
    /\ pc' = "frame"
    /\ UNCHANGED <<since_music_check, music_mode_override, music_playing,
                   frameVars, heldVars, envVars, sideVars,
                   executorVars>>

\* lines 182-188, browser lost focus while in BROWSER: restore the recorded mode
BrowserCheckRestore ==
    /\ pc = "browser"
    /\ ~BrowserSuppressed(music_mode_override) /\ BrowserCheckDue
    /\ ~browser_probe /\ mode = "BROWSER"
    /\ since_browser_check' = 0
    /\ current_mode' = mode
    /\ toggle_mode("None", last_known_mode, "browser_restore")
    /\ last_known_mode' = "MAIN"
    /\ pc' = "frame"
    /\ UNCHANGED <<since_music_check, music_mode_override, music_playing,
                   frameVars, heldVars, envVars, sideVars,
                   executorVars>>

\* lines 168-182, the check is due and switches nothing
BrowserCheckIdle ==
    /\ pc = "browser"
    /\ ~BrowserSuppressed(music_mode_override) /\ BrowserCheckDue
    /\ ~(browser_probe /\ mode # "BROWSER")
    /\ ~(~browser_probe /\ mode = "BROWSER")
    /\ since_browser_check' = 0
    /\ current_mode' = mode
    /\ pc' = "frame"
    /\ UNCHANGED <<recognizerVars, toggled, since_music_check, last_known_mode,
                   music_mode_override, music_playing, frameVars, heldVars, envVars, sideVars,
                   executorVars>>

\* lines 207, 261-271: no hand in the frame, the recognizer is not called;
\* the calls into the executor apart
NoHandFrame ==
    /\ pc = "frame"
    /\ ret_gesture' = "None"
    /\ is_new_gesture' = FALSE
    /\ executed' = "None"
    /\ finger_vector' = <<>>
    /\ held_trigger' = "None"
    /\ since_manual' = GraceTicks
    /\ after_loss' = AfterLoss(<<>>, current_gesture, after_loss)
    /\ since_fire' = since_fire
    /\ trajectory_history' = <<>>
    /\ pc' = "key"
    /\ UNCHANGED <<recognizerVars, toggled, since_music_check, since_browser_check,
                   last_known_mode, music_mode_override, current_mode,
                   music_playing, envVars, raw_gesture, dynamic_gesture>>

\* lines 200-207, 261-271 where the executor is not followed: its fields,
\* which nothing in the loop reads back, are left out
FrameNoHand == NoHandFrame /\ UNCHANGED executorVars

\* lines 225-260: does the host hand the action to execute_action ?
HostExecutes(m, action, is_new) ==
    IF m = "MOUSE" THEN action = "mouse_move" \/ action = "mouse_drag" \/ is_new
    ELSE IF m = "BROWSER" THEN is_new
    ELSE is_new

\* lines 245-247, 258-260: does the host call toggle_mode(current_gesture) ?
HostToggles(m, action, is_new) ==
    IF m = "MOUSE"
    THEN action # "mouse_move" /\ action # "mouse_drag" /\ is_new /\ action = "toggle_mode"
    ELSE IF m = "BROWSER" THEN FALSE
    ELSE is_new /\ action = "toggle_mode"

\* lines 207-210, 219-260: a frame with a hand whose finger states are fs, but
\* for the trajectory calls of lines 212-215
HandFrame(fs) ==
    /\ pc = "frame"
    /\ LET r == RecognizeGesture(fs, mode, gesture_history, current_gesture,
                                 since_gesture)
           action == IF r.gesture = "None" THEN "None"
                     ELSE GetGestureAction(mode, r.gesture)
       IN  /\ finger_vector' = fs
           /\ after_loss' = AfterLoss(fs, current_gesture, after_loss)
           /\ since_fire' = IF mode = "MAIN" /\ r.gesture \in MagnitudeGestures /\ r.is_new
                            THEN <<0, FALSE>> ELSE since_fire
           /\ ret_gesture' = r.gesture
           /\ is_new_gesture' = r.is_new
           /\ executed' = IF action # "None" /\ HostExecutes(mode, action, r.is_new)
                          THEN action ELSE "None"
           /\ IF action # "None" /\ HostToggles(mode, action, r.is_new)
              THEN /\ mode' = ToggleTarget(mode, "None")
                   /\ gesture_history' = ToggleHistory(r.hist)
                   /\ current_gesture' = r.gesture
                   /\ since_gesture' = ToggleGrace
                   /\ toggled' = Append(toggled, "manual")
                   /\ held_trigger' = r.gesture
                   /\ since_manual' = 0
              ELSE /\ mode' = mode
                   /\ gesture_history' = r.hist
                   /\ current_gesture' = r.cur
                   /\ since_gesture' = r.age
                   /\ toggled' = toggled
                   /\ IF held_trigger # "None" /\ Classify(fs) = held_trigger
                      THEN held_trigger' = held_trigger /\ since_manual' = since_manual
                      ELSE held_trigger' = "None" /\ since_manual' = GraceTicks
    /\ pc' = "key"
    /\ UNCHANGED <<since_music_check, since_browser_check, last_known_mode,
                   music_mode_override, current_mode, music_playing, envVars>>

\* lines 207-260 where the fingertip is not followed: the trajectory buffer,
\* which nothing in the frame reads back, is left out
FrameHand(fs) == HandFrame(fs) /\ UNCHANGED <<sideVars, executorVars>>

\* lines 137-139: back at the loop top dt ticks later, the clock is read and
\* music_playing cleared; age is current_time - last_gesture_time before that,
\* held the gesture held since a manual transition, loss the frames counted
\* since a frame without finger states
LoopBack(dt, age, held, loss, fire) ==
    /\ after_loss' = loss
    /\ since_fire' = fire
    /\ since_music_check' = Advance(since_music_check, dt, music_check_interval)
    /\ since_browser_check' = Advance(since_browser_check, dt, browser_check_interval)
    /\ since_gesture' = Advance(age, dt, GestureAgeCap)
    /\ since_manual' = IF held = "None" THEN GraceTicks
                       ELSE Advance(since_manual, dt, GraceTicks)
    /\ held_trigger' = IF held = "None" \/ since_manual + dt >= GraceTicks
                       THEN "None" ELSE held
    /\ music_playing' = FALSE
    /\ ret_gesture' = "None"
    /\ is_new_gesture' = FALSE
    /\ executed' = "None"
    /\ finger_vector' = <<>>
    /\ toggled' = <<>>
    /\ pc' = "music"

\* lines 301-311: no key of interest was pressed; the iteration took dt
\* ticks; the clock of the executor apart
KeyNoneLoop(dt) ==
    /\ pc = "key"
    /\ LoopBack(dt, since_gesture, held_trigger, after_loss,
                FireAdvance(since_fire, dt, FALSE))
    /\ UNCHANGED <<mode, gesture_history, current_gesture, last_known_mode,
                   music_mode_override, current_mode, envVars, sideVars>>

KeyNoneAfter(dt) == KeyNoneLoop(dt) /\ UNCHANGED executorVars

KeyNone == \E dt \in 0..MaxFrameTicks : KeyNoneAfter(dt)

\* variant: reset() leaves the trajectory buffer as it is
KeyResetAfter_KeepsTrajectory(dt) ==
    /\ pc = "key"
    /\ gesture_history' = <<>>
    /\ current_gesture' = "None"
    /\ LoopBack(dt, GestureAgeCap, "None", NoLoss, FireAdvance(since_fire, dt, TRUE))
    /\ UNCHANGED <<mode, last_known_mode, music_mode_override, current_mode, envVars,
                   sideVars,
                   executorVars>>

\* lines 306-308: 'r' resets the recognizer; the iteration took dt ticks;
\* the clock of the executor apart
KeyResetLoop(dt) ==
    /\ pc = "key"
    /\ gesture_history' = <<>>
    /\ current_gesture' = "None"
    /\ trajectory_history' = <<>>
    /\ LoopBack(dt, GestureAgeCap, "None", NoLoss, FireAdvance(since_fire, dt, TRUE))
    /\ UNCHANGED <<mode, last_known_mode, music_mode_override, current_mode, envVars,
                   raw_gesture, dynamic_gesture>>

KeyResetAfter(dt) == KeyResetLoop(dt) /\ UNCHANGED executorVars

KeyReset == \E dt \in 0..MaxFrameTicks : KeyResetAfter(dt)

\* the music player starts or stops: is_music_playing() changes its answer
\* (observable only at the next music check)
MusicProbeChange ==
    /\ pc = "music"
    /\ MusicCheckDue
    /\ music_probe' = ~music_probe
    /\ UNCHANGED <<recognizerVars, toggled, since_music_check, since_browser_check,
                   last_known_mode, music_mode_override, current_mode,
                   music_playing, frameVars, heldVars, pc, browser_probe, palette, sideVars,
                   executorVars>>

\* a browser gains or loses focus: is_browser_active() changes its answer
\* (observable only at the next browser check)
BrowserProbeChange ==
    /\ pc = "browser"
    /\ ~BrowserSuppressed(music_mode_override) /\ BrowserCheckDue
    /\ browser_probe' = ~browser_probe
    /\ UNCHANGED <<recognizerVars, toggled, since_music_check, since_browser_check,
                   last_known_mode, music_mode_override, current_mode,
                   music_playing, frameVars, heldVars, pc, music_probe, palette, sideVars,
                   executorVars>>

\* a frame with a hand in one of the shapes of the run
FrameWithHand == \E fs \in FingerInputs(palette) : FrameHand(fs)

Next ==
    \/ MusicCheckEnter
    \/ MusicCheckIdle
    \/ MusicRestore
    \/ MusicNoCheck
    \/ BrowserNoCheck
    \/ BrowserCheckEnter
    \/ BrowserCheckRestore
    \/ BrowserCheckIdle
    \/ FrameNoHand
    \/ FrameWithHand
    \/ KeyNone
    \/ KeyReset
    \/ MusicProbeChange
    \/ BrowserProbeChange

Spec == Init /\ [][Next]_vars

\* the steps of the loop body (everything but the changes of the probes)
LoopStep ==
    \/ MusicCheckEnter \/ MusicCheckIdle \/ MusicRestore \/ MusicNoCheck
    \/ BrowserNoCheck \/ BrowserCheckEnter \/ BrowserCheckRestore \/ BrowserCheckIdle
    \/ FrameNoHand \/ FrameWithHand
    \/ KeyNone \/ KeyReset

\* a loop iteration during which the clock advances
ClockTick == \E dt \in 1..MaxFrameTicks : KeyNoneAfter(dt) \/ KeyResetAfter(dt)

\* the loop keeps iterating (it blocks nowhere) and the clock keeps advancing
LiveSpec == Init /\ [][Next]_vars /\ WF_vars(LoopStep) /\ SF_vars(ClockTick)

----------------------------------------------------------------------------
(* The frame handler of main() behind a stub tracker and stub probes *)

\* a mode name that is none of the four
UnknownMode == "GAME"

\* finger-state vectors of a length other than 5
ShortVector == <<0, 0, 0>>
LongVector == <<0, 1000, 0, 0, 0, 0>>

\* each run of the stub tracker presents the templates of one of these sets
HarnessPalettes == {{"ONE", "PALM"}, {"ONE", "FIST"}}

\* what the stub tracker hands to the frame: templates, a shape that matches
\* none, vectors of a wrong length and the empty vector
HarnessInputs(p) ==
    {GESTURES[g] : g \in p} \cup {UnmatchedShape, ShortVector, LongVector, <<>>}

\* the state at the first `while True` iteration, no probe ever reporting true
HarnessInit ==
    /\ mode = "MAIN"
    /\ gesture_history = <<>>
    /\ current_gesture = "None"
    /\ since_gesture = GestureAgeCap
    /\ since_music_check = music_check_interval
    /\ since_browser_check = browser_check_interval
    /\ last_known_mode = "MAIN"
    /\ music_mode_override = FALSE
    /\ current_mode = "UNSET"
    /\ music_playing = FALSE
    /\ ret_gesture = "None"
    /\ is_new_gesture = FALSE
    /\ executed = "None"
    /\ pc = "music"
    /\ toggled = <<>>
    /\ held_trigger = "None"
    /\ since_manual = GraceTicks
    /\ after_loss = NoLoss
    /\ since_fire = NoFire
    /\ music_probe = FALSE
    /\ browser_probe = FALSE
    /\ palette \in HarnessPalettes
    /\ finger_vector = <<>>
    /\ raw_gesture = "None"
    /\ trajectory_history = <<>>
    /\ dynamic_gesture = "None"
    /\ since_action = mouse_action_cooldown
    /\ browser_scroll_direction = "None"
    /\ scroll_fresh = FALSE
    /\ performed = "None"
    /\ scrolled = FALSE

\* lines 141-188 with stub probes: no transition in this iteration
StubNoTransition ==
    /\ pc = "music"
    /\ pc' = "frame"
    /\ UNCHANGED <<recognizerVars, toggled, since_music_check, since_browser_check,
                   last_known_mode, music_mode_override, current_mode,
                   music_playing, frameVars, heldVars, envVars, sideVars,
                   executorVars>>

\* lines 141-188 with stub probes: toggle_mode(None, target) as the automatic
\* transitions call it, for any target
StubTransition(target) ==
    /\ pc = "music"
    /\ toggle_mode("None", target, "stub")
    /\ pc' = "frame"
    /\ UNCHANGED <<since_music_check, since_browser_check, last_known_mode,
                   music_mode_override, current_mode, music_playing, frameVars,
                   heldVars, envVars, sideVars,
                   executorVars>>

StubTransitions == \E target \in Modes \cup {UnknownMode} : StubTransition(target)

\* a frame with whatever the stub tracker hands over
HarnessFrameWithHand == \E fs \in HarnessInputs(palette) : FrameHand(fs)

HarnessNext ==
    \/ StubNoTransition
    \/ StubTransitions
    \/ FrameNoHand
    \/ HarnessFrameWithHand
    \/ KeyNone
    \/ KeyReset

HarnessSpec == HarnessInit /\ [][HarnessNext]_vars

----------------------------------------------------------------------------
(* recognize_gesture called directly, on every binary finger vector *)

RECURSIVE VectorsOver(_, _)
VectorsOver(values, n) ==
    IF n = 0 THEN {<<>>}
    ELSE {Append(v, x) : v \in VectorsOver(values, n - 1), x \in values}

\* what get_finger_states can return: five flags, 1 written as 1000
BinaryVectors == VectorsOver({0, 1000}, 5)

\* each run calls with the binary vectors of one thumb and little-finger
\* setting, and with the vectors of a wrong length
VectorSets ==
    {{v \in BinaryVectors : v[1] = t /\ v[5] = l} \cup {ShortVector, LongVector} :
        t \in {0, 1000}, l \in {0, 1000}}

ClassifyInit ==
    /\ mode = "MAIN"
    /\ gesture_history = <<>>
    /\ current_gesture = "None"
    /\ since_gesture = GestureAgeCap
    /\ since_music_check = music_check_interval
    /\ since_browser_check = browser_check_interval
    /\ last_known_mode = "MAIN"
    /\ music_mode_override = FALSE
    /\ current_mode = "UNSET"
    /\ music_playing = FALSE
    /\ ret_gesture = "None"
    /\ is_new_gesture = FALSE
    /\ executed = "None"
    /\ pc = "frame"
    /\ toggled = <<>>
    /\ held_trigger = "None"
    /\ since_manual = GraceTicks
    /\ after_loss = NoLoss
    /\ since_fire = NoFire
    /\ music_probe = FALSE
    /\ browser_probe = FALSE
    /\ palette \in VectorSets
    /\ finger_vector = <<>>
    /\ raw_gesture = "None"
    /\ trajectory_history = <<>>
    /\ dynamic_gesture = "None"
    /\ since_action = mouse_action_cooldown
    /\ browser_scroll_direction = "None"
    /\ scroll_fresh = FALSE
    /\ performed = "None"
    /\ scrolled = FALSE

\* recognize_gesture(fs), lines 50-107; raw_gesture is what the matching
\* loop of lines 53-62 leaves in recognized_gesture
CallRecognizeGesture(fs) ==
    /\ LET r == RecognizeGesture(fs, mode, gesture_history, current_gesture,
                                 since_gesture)
       IN  /\ finger_vector' = fs
           /\ raw_gesture' = Classify(fs)
           /\ ret_gesture' = r.gesture
           /\ is_new_gesture' = r.is_new
           /\ gesture_history' = r.hist
           /\ current_gesture' = r.cur
           /\ since_gesture' = r.age
    /\ UNCHANGED <<mode, since_music_check, since_browser_check, last_known_mode,
                   music_mode_override, current_mode, music_playing, executed, pc,
                   toggled, heldVars, envVars, trajectory_history, dynamic_gesture,
                   executorVars>>

ClassifyNext == \E fs \in palette : CallRecognizeGesture(fs)

ClassifySpec == ClassifyInit /\ [][ClassifyNext]_vars

----------------------------------------------------------------------------
(* The trajectory detector *)

TrajectoryMaxLen == 10
MinSamples == 5
DirectionThreshold == 30
SwipeDistance == 50

Abs(x) == IF x < 0 THEN 0 - x ELSE x

\* each run moves the fingertip between the two positions of one of these sets
PointSets ==
    { {<<0, 0>>, <<60, 0>>}, {<<0, 0>>, <<40, 0>>}, {<<0, 0>>, <<50, 0>>},
      {<<0, 0>>, <<51, 0>>}, {<<0, 0>>, <<2, 60>>}, {<<0, 0>>, <<30, 40>>},
      {<<0, 0>>, <<40, 40>>}, {<<0, 0>>, <<60, 2>>} }

\* deque(maxlen=10).append
TrajectoryAppend(h, p) ==
    IF Len(h) < TrajectoryMaxLen THEN Append(h, p) ELSE Append(Tail(h), p)

\* the direction analyze_trajectory reports for a net displacement
Direction(delta_x, delta_y) ==
    IF Abs(delta_x) > Abs(delta_y)
    THEN IF delta_x > DirectionThreshold THEN "RIGHT"
         ELSE IF delta_x < 0 - DirectionThreshold THEN "LEFT"
         ELSE "None"
    ELSE IF delta_y > DirectionThreshold THEN "DOWN"
         ELSE IF delta_y < 0 - DirectionThreshold THEN "UP"
         ELSE "None"

\* analyze_trajectory: none, or the direction and the squared distance
AnalyzeTrajectory(h) ==
    IF Len(h) < MinSamples
    THEN [none |-> TRUE, direction |-> "None", distance_sq |-> 0,
          delta_x |-> 0, delta_y |-> 0]
    ELSE LET delta_x == h[Len(h)][1] - h[1][1]
             delta_y == h[Len(h)][2] - h[1][2]
         IN  [none |-> FALSE, direction |-> Direction(delta_x, delta_y),
              distance_sq |-> delta_x * delta_x + delta_y * delta_y,
              delta_x |-> delta_x, delta_y |-> delta_y]

\* variant: the magnitude gate is not applied
SwipeOf_NoMagnitudeGate(h) ==
    LET trajectory_info == AnalyzeTrajectory(h)
    IN  IF trajectory_info.none THEN "None"
        ELSE IF trajectory_info.direction # "None"
        THEN IF trajectory_info.direction = "UP" THEN "SWIPE_UP"
             ELSE IF trajectory_info.direction = "DOWN" THEN "SWIPE_DOWN"
             ELSE IF trajectory_info.direction = "LEFT" THEN "SWIPE_LEFT"
             ELSE "SWIPE_RIGHT"
        ELSE "None"

\* what recognize_dynamic_gesture returns once the position is recorded:
\* sqrt(d2) > 50 is d2 > 50 * 50
SwipeOf(h) ==
    LET trajectory_info == AnalyzeTrajectory(h)
    IN  IF trajectory_info.none THEN "None"
        ELSE IF trajectory_info.distance_sq > SwipeDistance * SwipeDistance
                /\ trajectory_info.direction # "None"
        THEN IF trajectory_info.direction = "UP" THEN "SWIPE_UP"
             ELSE IF trajectory_info.direction = "DOWN" THEN "SWIPE_DOWN"
             ELSE IF trajectory_info.direction = "LEFT" THEN "SWIPE_LEFT"
             ELSE "SWIPE_RIGHT"
        ELSE "None"

TrajInit ==
    /\ mode = "MAIN"
    /\ gesture_history = <<>>
    /\ current_gesture = "None"
    /\ since_gesture = GestureAgeCap
    /\ since_music_check = music_check_interval
    /\ since_browser_check = browser_check_interval
    /\ last_known_mode = "MAIN"
    /\ music_mode_override = FALSE
    /\ current_mode = "UNSET"
    /\ music_playing = FALSE
    /\ ret_gesture = "None"
    /\ is_new_gesture = FALSE
    /\ executed = "None"
    /\ pc = "frame"
    /\ toggled = <<>>
    /\ held_trigger = "None"
    /\ since_manual = GraceTicks
    /\ after_loss = NoLoss
    /\ since_fire = NoFire
    /\ music_probe = FALSE
    /\ browser_probe = FALSE
    /\ palette \in PointSets
    /\ finger_vector = <<>>
    /\ raw_gesture = "None"
    /\ trajectory_history = <<>>
    /\ dynamic_gesture = "None"
    /\ since_action = mouse_action_cooldown
    /\ browser_scroll_direction = "None"
    /\ scroll_fresh = FALSE
    /\ performed = "None"
    /\ scrolled = FALSE

trajRest == <<recognizerVars, since_music_check, since_browser_check,
              last_known_mode, music_mode_override, current_mode, music_playing,
              frameVars, pc, toggled, heldVars, envVars, raw_gesture, executorVars>>

\* recognize_dynamic_gesture(landmarks) with the index fingertip at position p
RecognizeDynamicGesture(p) ==
    /\ trajectory_history' = TrajectoryAppend(trajectory_history, p)
    /\ dynamic_gesture' = SwipeOf(trajectory_history')
    /\ UNCHANGED trajRest

\* recognize_dynamic_gesture(landmarks) with fewer than 9 landmarks: nothing
\* is recorded, the buffer is analysed as it is
RecognizeDynamicGestureNoTip ==
    /\ trajectory_history' = trajectory_history
    /\ dynamic_gesture' = SwipeOf(trajectory_history)
    /\ UNCHANGED trajRest

\* clear_trajectory
ClearTrajectory ==
    /\ trajectory_history' = <<>>
    /\ dynamic_gesture' = dynamic_gesture
    /\ UNCHANGED trajRest

RecognizeDynamicGestures == \E p \in palette : RecognizeDynamicGesture(p)

TrajNext ==
    \/ RecognizeDynamicGestures
    \/ RecognizeDynamicGestureNoTip
    \/ ClearTrajectory

TrajSpec == TrajInit /\ [][TrajNext]_vars

----------------------------------------------------------------------------
(* The camera frame with its trajectory calls, behind a stub tracker *)

\* the stub tracker reports the index fingertip at one of these positions
TrackPoints == {<<0, 0>>, <<60, 0>>}

\* each run of the stub tracker presents the templates of one of these sets
TrackPalettes == {{"PALM"}, {"TWO"}}

TrackInit ==
    /\ mode = "MAIN"
    /\ gesture_history = <<>>
    /\ current_gesture = "None"
    /\ since_gesture = GestureAgeCap
    /\ since_music_check = music_check_interval
    /\ since_browser_check = browser_check_interval
    /\ last_known_mode = "MAIN"
    /\ music_mode_override = FALSE
    /\ current_mode = "UNSET"
    /\ music_playing = FALSE
    /\ ret_gesture = "None"
    /\ is_new_gesture = FALSE
    /\ executed = "None"
    /\ pc = "music"
    /\ toggled = <<>>
    /\ held_trigger = "None"
    /\ since_manual = GraceTicks
    /\ after_loss = NoLoss
    /\ since_fire = NoFire
    /\ music_probe = FALSE
    /\ browser_probe = FALSE
    /\ palette \in TrackPalettes
    /\ finger_vector = <<>>
    /\ raw_gesture = "None"
    /\ trajectory_history = <<>>
    /\ dynamic_gesture = "None"
    /\ since_action = mouse_action_cooldown
    /\ browser_scroll_direction = "None"
    /\ scroll_fresh = FALSE
    /\ performed = "None"
    /\ scrolled = FALSE

\* lines 207-260 with the index fingertip at position p: line 212 records p,
\* and recognize_dynamic_gesture of line 215 records it again (line 380)
\* before it analyses the buffer
FrameHandAt(fs, p) ==
    /\ HandFrame(fs)
    /\ trajectory_history' =
           TrajectoryAppend(TrajectoryAppend(trajectory_history, p), p)
    /\ dynamic_gesture' = SwipeOf(trajectory_history')
    /\ raw_gesture' = raw_gesture
    /\ UNCHANGED executorVars

\* a frame with a hand in one of the shapes of the run, the fingertip at one
\* of the positions of the stub tracker
TrackFrameWithHand ==
    \E fs \in FingerInputs(palette), p \in TrackPoints : FrameHandAt(fs, p)

TrackNext ==
    \/ StubNoTransition
    \/ FrameNoHand
    \/ TrackFrameWithHand
    \/ KeyNone
    \/ KeyReset

TrackSpec == TrackInit /\ [][TrackNext]_vars

----------------------------------------------------------------------------
(* ActionExecutor, and the camera frame with its calls into it, behind a   *)
(* stub tracker and stub probes                                            *)

\* the action names that start with "mouse_"
MouseActions ==
    {"mouse_move", "mouse_click_left", "mouse_click_right", "mouse_double_click",
     "mouse_drag"}

\* execute_action, lines 95-99: a mouse action other than mouse_move is
\* refused less than 0.5 s after action_timestamp; age is
\* time.time() - action_timestamp
Refused(action_name, age) ==
    /\ action_name \in MouseActions
    /\ age < mouse_action_cooldown
    /\ action_name # "mouse_move"

\* update_browser_scroll: the possible <<scroll event sent, browser_scroll_last_time
\* set in this tick>>.  The period of 0.05 s is shorter than a tick: it has
\* passed when the stamp is of an earlier tick, and it may or may not have
\* passed when the stamp is of this tick.
UpdateBrowserScroll(direction, fresh) ==
    IF direction = "None" THEN {<<FALSE, fresh>>}
    ELSE IF fresh THEN {<<FALSE, TRUE>>, <<TRUE, TRUE>>}
    ELSE {<<TRUE, TRUE>>}

\* each run of the stub tracker presents the templates of one of these sets
ExecPalettes == {{"ONE", "TWO"}, {"FIST", "PALM"}}

ExecInit ==
    /\ mode = "MAIN"
    /\ gesture_history = <<>>
    /\ current_gesture = "None"
    /\ since_gesture = GestureAgeCap
    /\ since_music_check = music_check_interval
    /\ since_browser_check = browser_check_interval
    /\ last_known_mode = "MAIN"
    /\ music_mode_override = FALSE
    /\ current_mode = "UNSET"
    /\ music_playing = FALSE
    /\ ret_gesture = "None"
    /\ is_new_gesture = FALSE
    /\ executed = "None"
    /\ pc = "music"
    /\ toggled = <<>>
    /\ held_trigger = "None"
    /\ since_manual = GraceTicks
    /\ after_loss = NoLoss
    /\ since_fire = NoFire
    /\ music_probe = FALSE
    /\ browser_probe = FALSE
    /\ palette \in ExecPalettes
    /\ finger_vector = <<>>
    /\ raw_gesture = "None"
    /\ trajectory_history = <<>>
    /\ dynamic_gesture = "None"
    /\ since_action = mouse_action_cooldown
    /\ browser_scroll_direction = "None"
    /\ scroll_fresh = FALSE
    /\ performed = "None"
    /\ scrolled = FALSE

\* lines 141-188 with stub probes: toggle_mode(None, target) as the automatic
\* transitions call it; stops tells whether the transition is the exit from
\* BROWSER of lines 182-188, which calls _stop_browser_scroll first
ExecStubTransition(target, stops) ==
    /\ pc = "music"
    /\ stops => mode = "BROWSER"
    /\ toggle_mode("None", target, "stub")
    /\ browser_scroll_direction' = IF stops THEN "None" ELSE browser_scroll_direction
    /\ scroll_fresh' = (scroll_fresh /\ ~stops)
    /\ pc' = "frame"
    /\ UNCHANGED <<since_music_check, since_browser_check, last_known_mode,
                   music_mode_override, current_mode, music_playing, frameVars,
                   heldVars, envVars, sideVars, since_action, performed, scrolled>>

\* the stub probes enter BROWSER and restore MOUSE
ExecTargets == {"MOUSE", "BROWSER"}

ExecStubTransitions ==
    \E target \in ExecTargets, stops \in BOOLEAN : ExecStubTransition(target, stops)

\* lines 200-260 with the executor: update_browser_scroll or
\* _stop_browser_scroll first, then the recognizer, then execute_action with
\* the action the frame hands over (executed')
ExecFrameHand(fs) ==
    /\ HandFrame(fs)
    /\ UNCHANGED sideVars
    /\ \E u \in UpdateBrowserScroll(browser_scroll_direction, scroll_fresh) :
          LET handed == executed'
              done == IF handed # "None" /\ ~Refused(handed, since_action)
                      THEN handed ELSE "None"
              direction == IF mode # "BROWSER" THEN "None"
                           ELSE IF done = "browser_scroll_down" THEN "down"
                           ELSE IF done = "browser_scroll_up" THEN "up"
                           ELSE IF handed # "None" THEN "None"
                           ELSE browser_scroll_direction
          IN  /\ scrolled' = (mode = "BROWSER" /\ u[1])
              /\ performed' = done
              /\ since_action' = IF done # "None" THEN 0 ELSE since_action
              /\ browser_scroll_direction' = direction
              /\ scroll_fresh' =
                    IF direction = "None" THEN FALSE
                    ELSE IF done \in {"browser_scroll_down", "browser_scroll_up"} THEN TRUE
                    ELSE u[2]

ExecFrameWithHand == \E fs \in FingerInputs(palette) : ExecFrameHand(fs)

\* lines 200-207, 261-271 with the executor: update_browser_scroll or
\* _stop_browser_scroll first, and _stop_browser_scroll in BROWSER
ExecFrameNoHand ==
    /\ NoHandFrame
    /\ \E u \in UpdateBrowserScroll(browser_scroll_direction, scroll_fresh) :
          scrolled' = (mode = "BROWSER" /\ u[1])
    /\ browser_scroll_direction' = "None"
    /\ scroll_fresh' = FALSE
    /\ performed' = "None"
    /\ since_action' = since_action

\* the executor dt ticks later, when the loop is back at its top; age is
\* time.time() - action_timestamp before that
ExecLoopBack(dt, age) ==
    /\ since_action' = Advance(age, dt, mouse_action_cooldown)
    /\ scroll_fresh' = (scroll_fresh /\ dt = 0)
    /\ browser_scroll_direction' = browser_scroll_direction
    /\ performed' = "None"
    /\ scrolled' = FALSE

ExecKeyNone == \E dt \in 0..MaxFrameTicks : KeyNoneLoop(dt) /\ ExecLoopBack(dt, since_action)

ExecKeyReset == \E dt \in 0..MaxFrameTicks : KeyResetLoop(dt) /\ ExecLoopBack(dt, since_action)

\* lines 309-311: 's' has execute_action("screenshot") renew action_timestamp
ExecKeyScreenshot == \E dt \in 0..MaxFrameTicks : KeyNoneLoop(dt) /\ ExecLoopBack(dt, 0)

ExecNext ==
    \/ StubNoTransition
    \/ ExecStubTransitions
    \/ ExecFrameNoHand
    \/ ExecFrameWithHand
    \/ ExecKeyNone
    \/ ExecKeyReset
    \/ ExecKeyScreenshot

ExecSpec == ExecInit /\ [][ExecNext]_vars

----------------------------------------------------------------------------
(* Properties *)

TypeOK ==
    /\ mode \in Modes
    /\ Len(gesture_history) <= HistoryMaxLen
    /\ pc \in {"music", "browser", "frame", "key"}

\* the step calls toggle_mode
ToggleCalled == Len(toggled') = Len(toggled) + 1

\* the call site of the toggle_mode call of the step
CalledKind == toggled'[Len(toggled')]

\* the step is the music check of lines 142-155
MusicCheckStep == pc = "music" /\ pc' = "browser" /\ MusicCheckDue

\* the step is the browser part of the loop body, lines 166-188
BrowserStep == pc = "browser" /\ pc' = "frame"

\* the step is the camera frame, lines 189-271
FrameStep == pc = "frame" /\ pc' = "key"

\* C1: from MAIN, with both checks due in the same iteration and both probes
\* reporting true, the music check enters MUSIC and the browser part of that
\* iteration leaves the mode MUSIC; in the iteration of an automatic exit from
\* MUSIC, a browser check that is due and reports true ends in BROWSER.
C1_Step ==
    /\ (MusicCheckStep /\ BrowserCheckDue /\ mode = "MAIN" /\ music_probe /\ browser_probe)
          => mode' = "MUSIC"
    /\ (BrowserStep /\ music_playing /\ mode = "MUSIC") => mode' = "MUSIC"
    /\ (pc = "music" /\ ToggleCalled /\ CalledKind = "music_restore")
          => ~BrowserSuppressed(music_mode_override')
    /\ (BrowserStep /\ toggled = <<"music_restore">> /\ BrowserCheckDue /\ browser_probe)
          => mode' = "BROWSER"

C1_MusicBeforeBrowser == [][C1_Step]_vars

\* C1 witness: MUSIC was left automatically and BROWSER entered in the same iteration
C1_Witness ==
    /\ pc = "frame"
    /\ toggled = <<"music_restore", "browser_enter">>
    /\ mode = "BROWSER"
    /\ browser_probe

\* C2: a restore switches to the recorded mode and then records MAIN; a browser
\* check that reports false in BROWSER restores at once; a music check that
\* reports false in MUSIC is followed by the restore.
C2_Step ==
    /\ (ToggleCalled /\ CalledKind \in {"music_restore", "browser_restore"})
          => (mode' = last_known_mode /\ last_known_mode' = "MAIN")
    /\ (BrowserStep /\ ~BrowserSuppressed(music_mode_override) /\ BrowserCheckDue
                    /\ ~browser_probe /\ mode = "BROWSER")
          => (ToggleCalled /\ CalledKind = "browser_restore")

\* the music check of this iteration has just reported false in MUSIC
C2_MusicPolledFalse ==
    /\ pc = "browser"
    /\ toggled = <<>>
    /\ current_mode = "MUSIC"
    /\ ~music_playing

\* the music part of this iteration has restored the recorded mode
C2_MusicRestored == toggled # <<>> /\ toggled[1] = "music_restore"

C2_RestoreOnProbeFalse ==
    /\ [][C2_Step]_vars
    /\ C2_MusicPolledFalse ~> C2_MusicRestored

\* C2 witness: MUSIC, entered from MOUSE, has just been left for MOUSE
C2_Witness ==
    /\ pc = "browser"
    /\ toggled = <<"music_restore">>
    /\ mode = "MOUSE"
    /\ last_known_mode = "MAIN"
    /\ ~music_probe

\* C5 as stated: once the machine is out of MUSIC, with the music probe
\* reporting false and the browser probe reporting true, it reaches BROWSER
\* unless one of the probes changes its answer.
C5_BrowserResumesAfterMusic ==
    (mode # "MUSIC" /\ ~music_probe /\ browser_probe)
        ~> (mode = "BROWSER" \/ music_probe \/ ~browser_probe)

\* C3: every automatic entry into BROWSER or MUSIC records the mode that was
\* active immediately before it as the mode-to-restore and switches to
\* BROWSER or MUSIC.
C3_Step ==
    /\ (ToggleCalled /\ CalledKind = "music_enter")
          => (last_known_mode' = mode /\ mode' = "MUSIC")
    /\ (ToggleCalled /\ CalledKind = "browser_enter")
          => (last_known_mode' = mode /\ mode' = "BROWSER")

C3_EntryRecordsMode == [][C3_Step]_vars

\* C4: in every state with mode = MUSIC the browser check is suppressed, and
\* the browser part of the loop body never takes the machine out of MUSIC.
C4_Step ==
    /\ mode = "MUSIC" => BrowserSuppressed(music_mode_override)
    /\ (pc = "browser" /\ mode = "MUSIC") => mode' = "MUSIC"

C4_BrowserSuppressedInMusic == [][C4_Step]_vars

\* C4 witness: the browser check is due and the probe reports true, yet the
\* browser part of the iteration has left the machine in MUSIC
C4_Witness ==
    /\ pc = "frame"
    /\ mode = "MUSIC"
    /\ browser_probe
    /\ BrowserCheckDue

\* C6: the manual toggle maps MAIN to MOUSE and MOUSE, BROWSER, MUSIC to MAIN;
\* a camera frame changes the mode only by that map, so no gesture ever puts
\* the machine into BROWSER or MUSIC.
C6_Step ==
    /\ \A m \in Modes :
          ToggleTarget(m, "None") = IF m = "MAIN" THEN "MOUSE" ELSE "MAIN"
    /\ (ToggleCalled /\ CalledKind = "manual") => mode' = ToggleTarget(mode, "None")
    /\ (FrameStep /\ mode' # mode) => (ToggleCalled /\ CalledKind = "manual")
    /\ (FrameStep /\ mode' \in {"BROWSER", "MUSIC"}) => mode' = mode

C6_ManualToggleMap == [][C6_Step]_vars

\* C6 witness: a gesture has just toggled the machine back to MAIN while both
\* probes report false
C6_Witness ==
    /\ pc = "key"
    /\ toggled # <<>>
    /\ toggled[Len(toggled)] = "manual"
    /\ mode = "MAIN"
    /\ ~music_probe /\ ~browser_probe

\* C7: the mode is always one of MAIN, MOUSE, BROWSER, MUSIC, and it is MAIN
\* before the first check of the loop.
C7_ModeIsOneOfFour ==
    /\ mode \in Modes
    /\ current_mode = "UNSET" => mode = "MAIN"

\* C7 witness: an automatic entry from MOUSE, followed by a reset
C7_Witness ==
    /\ mode = "BROWSER"
    /\ last_known_mode = "MOUSE"
    /\ gesture_history = <<>>
    /\ since_gesture = GestureAgeCap

\* C8 as stated: after every toggle_mode call the debounce history is empty.
C8_HistoryClearedOnToggle == [][ToggleCalled => gesture_history' = <<>>]_vars

\* C8 amended: toggle_mode keeps the debounce history: an automatic transition
\* leaves it as it was, and after a manual one it still ends with the three
\* entries of the triggering gesture.
C8_Step ==
    /\ (ToggleCalled /\ CalledKind # "manual") => gesture_history' = gesture_history
    /\ (ToggleCalled /\ CalledKind = "manual")
          => (LastThreeSame(gesture_history')
              /\ gesture_history'[Len(gesture_history')] = current_gesture')

C8_HistoryKeptOnToggle == [][C8_Step]_vars

\* C9 as stated: after a transition triggered by gesture G, while G is presented
\* in every frame, no frame within 1.0 s of the transition reports an event
\* with is_new = True or executes an action.
C9_Step ==
    (FrameStep /\ held_trigger # "None" /\ since_manual < GraceTicks
               /\ held_trigger' = held_trigger)
        => (~is_new_gesture' /\ executed' = "None")

C9_HeldTriggerDoesNotRefire == [][C9_Step]_vars

C10_Step ==
    (FrameStep /\ since_gesture < 0)
        => /\ is_new_gesture' => ret_gesture' # current_gesture
           /\ executed' # "None"
                 => (ret_gesture' # current_gesture \/ executed' = "mouse_move")

C8_Witness ==
    /\ pc = "frame"
    /\ toggled # <<>>
    /\ toggled[Len(toggled)] \in {"music_enter", "browser_enter"}
    /\ Len(gesture_history) = HistoryMaxLen

\* the history h ends with three entries g
EndsWithThree(h, g) ==
    /\ Len(h) >= 3
    /\ h[Len(h)] = g /\ h[Len(h) - 1] = g /\ h[Len(h) - 2] = g

\* the step is a frame whose finger states classify as some gesture
RawGestureStep == FrameStep /\ Classify(finger_vector') # "None"

\* the gesture the frame of the step classifies as
RawGesture == Classify(finger_vector')

\* the debounce part of C11: the confirmed gesture changes to G only on a frame
\* that leaves three G at the end of the history; a frame that does not
\* complete three in a row returns the previously confirmed gesture with
\* is_new = False and confirms nothing
C11_Debounce ==
    /\ (FrameStep /\ current_gesture' # current_gesture /\ current_gesture' # "None")
          => EndsWithThree(gesture_history', current_gesture')
    /\ (RawGestureStep /\ ~EndsWithThree(gesture_history', RawGesture))
          => /\ ret_gesture' = current_gesture
             /\ ~is_new_gesture'
             /\ current_gesture' = current_gesture

C11_Step ==
    /\ C11_Debounce
    /\ (RawGestureStep /\ EndsWithThree(gesture_history', RawGesture))
          => /\ ret_gesture' = RawGesture
             /\ current_gesture' = RawGesture
             /\ (mode = "MAIN" /\ RawGesture \in MagnitudeGestures)
                   => (is_new_gesture' <=> since_gesture >= MagnitudeCooldown)
             /\ (~(mode = "MAIN" /\ RawGesture \in MagnitudeGestures)
                    /\ current_gesture # RawGesture)
                   => is_new_gesture'

C12_SecondConfirmationIsNew ==
    [][(FrameStep /\ after_loss'[1] # "None" /\ after_loss'[2] = 3)
           => (ret_gesture' = after_loss'[1] /\ is_new_gesture')]_vars

\* no template equals the vector v (of flags 0 and 1000)
NoTemplateFor(v) == Len(v) # 5 \/ \A g \in GestureNames : v # GESTURES[g]

\* C13: a frame whose finger states are not empty and equal no template, a
\* vector of a length other than 5 included, returns (None, False), leaves
\* the debounce history empty and the confirmed gesture none, and executes
\* nothing.
C13_Step ==
    (FrameStep /\ finger_vector' # <<>> /\ NoTemplateFor(finger_vector'))
        => /\ ret_gesture' = "None"
           /\ ~is_new_gesture'
           /\ gesture_history' = <<>>
           /\ current_gesture' = "None"
           /\ executed' = "None"
           /\ mode' = mode

C13_NoMatchClears == [][C13_Step]_vars

\* C13 witness: a vector of a wrong length was handed over in the tick in
\* which a confirmed gesture had fired, and the call has returned
C13_Witness ==
    /\ pc = "key"
    /\ finger_vector \in {ShortVector, LongVector}
    /\ since_gesture = 0
    /\ gesture_history = <<>>
    /\ current_gesture = "None"
    /\ ret_gesture = "None"

\* the step is a frame in MAIN that fires one of ONE..FOUR
MagnitudeFireStep ==
    FrameStep /\ mode = "MAIN" /\ ret_gesture' \in MagnitudeGestures /\ is_new_gesture'

\* a frame in MAIN on which one of ONE..FOUR is the confirmed gesture fires
\* its action as soon as 0.3 s have passed since last_gesture_time
C14_HeldFires ==
    (FrameStep /\ mode = "MAIN" /\ RawGesture \in MagnitudeGestures
               /\ EndsWithThree(gesture_history', RawGesture)
               /\ since_gesture >= MagnitudeCooldown)
        => /\ ret_gesture' = RawGesture
           /\ is_new_gesture'
           /\ executed' = GESTURE_ACTIONS[RawGesture]

\* C14 as stated: a held magnitude gesture keeps firing in MAIN, and two
\* consecutive fires of ONE..FOUR in MAIN are at least 0.3 s apart.
C14_FiresCooldownApart ==
    [][/\ C14_HeldFires
       /\ MagnitudeFireStep => since_fire[1] >= MagnitudeCooldown]_vars

\* C14 amended: a held magnitude gesture keeps firing in MAIN, and two
\* consecutive fires of ONE..FOUR in MAIN are at least 0.3 s apart unless
\* reset() was called between them.
C14_Step ==
    /\ C14_HeldFires
    /\ MagnitudeFireStep => (since_fire[1] >= MagnitudeCooldown \/ since_fire[2])

C14_FiresCooldownApartUnlessReset == [][C14_Step]_vars

\* C14 witness: ONE, held in MAIN for five frames and more, has just fired
\* volume_up
C14_Witness ==
    /\ pc = "key"
    /\ mode = "MAIN"
    /\ gesture_history = <<"ONE", "ONE", "ONE", "ONE", "ONE">>
    /\ ret_gesture = "ONE"
    /\ is_new_gesture
    /\ executed = "volume_up"
    /\ since_fire = <<0, FALSE>>

\* the step is a frame in MOUSE on which one of ONE, FIST, PALM is the
\* confirmed gesture
MouseContinuousStep ==
    /\ FrameStep /\ mode = "MOUSE"
    /\ RawGesture \in {"ONE", "FIST", "PALM"}
    /\ EndsWithThree(gesture_history', RawGesture)

\* C15 as stated: in MOUSE every frame on which ONE, FIST or PALM is the
\* confirmed gesture fires its action.
C15_ContinuousFireEveryFrame ==
    [][MouseContinuousStep => executed' = MOUSE_GESTURE_ACTIONS[RawGesture]]_vars

\* C15 amended: in MOUSE every frame on which ONE, FIST or PALM is the
\* confirmed gesture returns it, whatever the cooldown and the grace window,
\* with is_new = True exactly when it differs from the gesture confirmed
\* before; ONE executes mouse_move on every such frame, FIST and PALM execute
\* toggle_mode (and leave MOUSE for MAIN) exactly on the frames that report
\* them as new.
C15_Step ==
    MouseContinuousStep
        => /\ ret_gesture' = RawGesture
           /\ is_new_gesture' <=> current_gesture # RawGesture
           /\ RawGesture = "ONE" => (executed' = "mouse_move" /\ mode' = "MOUSE")
           /\ RawGesture # "ONE"
                 => /\ executed' = "toggle_mode" <=> current_gesture # RawGesture
                    /\ mode' = IF current_gesture # RawGesture THEN "MAIN" ELSE "MOUSE"

C15_ContinuousReturnedEveryFrame == [][C15_Step]_vars

\* C15 witness: inside the grace window in MOUSE, ONE is confirmed and moves
\* the pointer
C15_Witness ==
    /\ pc = "key"
    /\ mode = "MOUSE"
    /\ since_gesture < 0
    /\ ret_gesture = "ONE"
    /\ executed = "mouse_move"

\* the actions that repeat while their gesture is held: pointer motion and
\* the volume and brightness steps
RepeatingActions ==
    {"mouse_move", "mouse_drag", "volume_up", "volume_down", "brightness_up",
     "brightness_down"}

\* C16 as stated: a gesture that has executed a discrete action (here the mode
\* toggle) and is presented in every frame since executes no discrete action
\* again.
C16_Step ==
    (FrameStep /\ held_trigger # "None" /\ held_trigger' = held_trigger)
        => (executed' = "None" \/ executed' \in RepeatingActions)

C16_DiscreteFiresOnce == [][C16_Step]_vars

\* C17 as stated: in each mode the action resolver maps PALM to toggle_mode,
\* and a frame that returns PALM as a new gesture executes toggle_mode and
\* toggles the mode manually.
C17_Step ==
    (FrameStep /\ ret_gesture' = "PALM" /\ is_new_gesture')
        => /\ GetGestureAction(mode, "PALM") = "toggle_mode"
           /\ executed' = "toggle_mode"
           /\ ToggleCalled /\ CalledKind = "manual"

C17_PalmTogglesInEveryMode == [][C17_Step]_vars

\* C18 as stated: toggle_mode never accepts a target mode that is none of the
\* four: no call leaves the machine in such a mode, and no frame is handled
\* in such a mode with the action table of a default mode.
C18_Step ==
    /\ ToggleCalled => mode' \in Modes
    /\ (FrameStep /\ mode \notin Modes) => executed' = "None"

C18_UnknownTargetRejected == [][C18_Step]_vars

\* the template equal to the vector v, "None" if there is none
ExactTemplate(v) ==
    IF \E g \in GestureNames : GESTURES[g] = v
    THEN CHOOSE g \in GestureNames : GESTURES[g] = v
    ELSE "None"

\* C19: whatever calls came before, the matching loop leaves the template
\* equal to the binary vector of the call, and none if no template equals it;
\* the history then ends with that template, or is empty.
C19_ExactTemplateSelected ==
    finger_vector \in BinaryVectors
        => /\ raw_gesture = ExactTemplate(finger_vector)
           /\ raw_gesture # "None"
                 => (gesture_history # <<>>
                     /\ gesture_history[Len(gesture_history)] = raw_gesture)
           /\ raw_gesture = "None" => gesture_history = <<>>

\* C19 witness: after calls with other vectors, [0,0,0,0,0] classifies as FIST
C19_Witness ==
    /\ finger_vector = <<0, 0, 0, 0, 0>>
    /\ raw_gesture = "FIST"
    /\ gesture_history = <<"ONE", "TWO", "THREE", "ONE", "FIST">>

\* the step is a recognize_dynamic_gesture call (not a clear_trajectory call)
DynamicStep == ~(trajectory_history # <<>> /\ trajectory_history' = <<>>)

\* the net displacement between the oldest and the newest buffered sample
NetDelta(h, axis) == h[Len(h)][axis] - h[1][axis]

\* C20: recognize_dynamic_gesture returns a swipe only with at least 5
\* buffered samples, a net displacement of more than 50 px and a dominant-axis
\* delta of more than 30 px in the direction it names; +60 px with at most
\* 2 px across yields SWIPE_RIGHT, 40 px yields none, and fewer than 5
\* samples yield none.
C20_Step ==
    DynamicStep
        => LET h == trajectory_history'
               swipe == dynamic_gesture'
           IN  /\ Len(h) < MinSamples => swipe = "None"
               /\ swipe # "None"
                     => /\ Len(h) >= 5
                        /\ NetDelta(h, 1) * NetDelta(h, 1)
                              + NetDelta(h, 2) * NetDelta(h, 2) > 50 * 50
                        /\ swipe = "SWIPE_RIGHT"
                              => (NetDelta(h, 1) > 30
                                  /\ NetDelta(h, 1) > Abs(NetDelta(h, 2)))
                        /\ swipe = "SWIPE_LEFT"
                              => (NetDelta(h, 1) < 0 - 30
                                  /\ 0 - NetDelta(h, 1) > Abs(NetDelta(h, 2)))
                        /\ swipe = "SWIPE_DOWN"
                              => (NetDelta(h, 2) > 30
                                  /\ NetDelta(h, 2) >= Abs(NetDelta(h, 1)))
                        /\ swipe = "SWIPE_UP"
                              => (NetDelta(h, 2) < 0 - 30
                                  /\ 0 - NetDelta(h, 2) >= Abs(NetDelta(h, 1)))
               /\ (Len(h) >= 5 /\ NetDelta(h, 1) = 60 /\ Abs(NetDelta(h, 2)) <= 2)
                     => swipe = "SWIPE_RIGHT"
               /\ (Len(h) >= 5 /\ NetDelta(h, 1) = 40 /\ Abs(NetDelta(h, 2)) <= 2)
                     => swipe = "None"

C20_SwipeThresholds == [][C20_Step]_vars

\* C20 witness: a full buffer whose newest sample is 60 px to the right of the
\* oldest has been classified as SWIPE_RIGHT
C20_Witness ==
    /\ Len(trajectory_history) = TrajectoryMaxLen
    /\ NetDelta(trajectory_history, 1) = 60
    /\ NetDelta(trajectory_history, 2) = 0
    /\ dynamic_gesture = "SWIPE_RIGHT"

\* C21: reset(), called in any state, leaves the debounce history and the
\* trajectory buffer empty, the confirmed gesture none and last_gesture_time 0
\* (further back than every cooldown when the clock is read next), and does
\* not change the mode.
C21_Step ==
    KeyReset
        => /\ gesture_history' = <<>>
           /\ trajectory_history' = <<>>
           /\ current_gesture' = "None"
           /\ since_gesture' = GestureAgeCap
           /\ mode' = mode

C21_ResetClearsTransientState == [][C21_Step]_vars

\* C21 witness: reset() was called in the tick in which TWO had fired, after
\* a frame that had found a swipe in the buffer, and has left everything clear
C21_Witness ==
    /\ pc = "music"
    /\ since_fire = <<0, TRUE>>
    /\ dynamic_gesture = "SWIPE_RIGHT"
    /\ gesture_history = <<>>
    /\ trajectory_history = <<>>
    /\ current_gesture = "None"
    /\ since_gesture = GestureAgeCap

\* the buffer h after one sample p has been inserted, the oldest evicted
\* when 10 are held
OneSampleMore(h, p) == IF Len(h) < 10 THEN Append(h, p) ELSE Append(Tail(h), p)

\* C22 as stated: a frame with a hand inserts exactly one sample into the
\* trajectory buffer, the buffer never holds more than 10 samples, and it is
\* empty after a frame without a hand.
C22_Step ==
    /\ Len(trajectory_history') <= 10
    /\ (FrameStep /\ finger_vector' # <<>>)
          => \E p \in TrackPoints :
                trajectory_history' = OneSampleMore(trajectory_history, p)
    /\ (FrameStep /\ finger_vector' = <<>>) => trajectory_history' = <<>>

C22_OneSamplePerFrame == [][C22_Step]_vars

\* the frame of the step confirms a gesture: its classification completes
\* three in a row
ConfirmingStep == RawGestureStep /\ EndsWithThree(gesture_history', RawGesture)

C23_Step ==
    FrameStep
        => (is_new_gesture'
              <=> /\ ConfirmingStep
                  /\ IF mode = "MAIN" /\ RawGesture \in MagnitudeGestures
                     THEN since_gesture >= MagnitudeCooldown
                     ELSE RawGesture # current_gesture)

ContinuousRule == mode = "MOUSE" /\ RawGesture \in {"ONE", "PALM"}

\* the gesture of the step falls under the fast-repeat rule (line 82)
FastRepeatRule == mode = "MAIN" /\ RawGesture \in MagnitudeGestures

\* the cooldown of the edge rule in mode m
EdgeCooldown(m) == IF m = "MUSIC" THEN MUSIC_GESTURE_COOLDOWN ELSE GESTURE_COOLDOWN

\* the fast-repeat rule or the edge rule fires the gesture of the step
TimedRuleFires ==
    \/ FastRepeatRule /\ since_gesture >= MagnitudeCooldown
    \/ /\ ~ContinuousRule /\ ~FastRepeatRule
       /\ (RawGesture # current_gesture \/ since_gesture >= EdgeCooldown(mode))

\* after the frame last_gesture_time is the time of the frame, unless the
\* frame went on to toggle the mode, which pushes it 1.0 s ahead
StampedNow ==
    IF ToggleCalled THEN since_gesture' = ToggleGrace ELSE since_gesture' = 0

\* C24 as stated: whenever the continuous, the fast-repeat or the edge rule
\* fires a confirmed gesture, last_gesture_time is the time of that frame.
C24_EveryFireStamps ==
    [][(ConfirmingStep /\ (ContinuousRule \/ TimedRuleFires)) => StampedNow]_vars

\* C24 amended: whenever the fast-repeat or the edge rule fires a confirmed
\* gesture, last_gesture_time is the time of that frame; the continuous rule
\* and a confirmed gesture that does not fire leave last_gesture_time as it
\* was.
C24_Step ==
    ConfirmingStep
        => IF TimedRuleFires THEN StampedNow
           ELSE IF ToggleCalled THEN since_gesture' = ToggleGrace
           ELSE since_gesture' = since_gesture

C24_TimedFireStamps == [][C24_Step]_vars

\* C24 witness: ONE, newly confirmed in MUSIC, has fired music_play_pause and
\* last_gesture_time is the time of the frame
C24_Witness ==
    /\ pc = "key"
    /\ mode = "MUSIC"
    /\ gesture_history = <<"FIST", "FIST", "ONE", "ONE", "ONE">>
    /\ ret_gesture = "ONE"
    /\ is_new_gesture
    /\ executed = "music_play_pause"
    /\ since_gesture = 0

\* C25 as stated: the host loop leaves MUSIC automatically only when the last
\* poll of the music probe reported false (the probe changes its answer only
\* right before a poll, so outside a due check music_probe is what the last
\* poll reported); while every poll reports true the machine stays in MUSIC
\* unless the user toggles.
C25_Step ==
    /\ (ToggleCalled /\ CalledKind = "music_restore") => ~music_probe
    /\ (mode = "MUSIC" /\ music_probe /\ music_probe' /\ mode' # "MUSIC")
          => (ToggleCalled /\ CalledKind = "manual")

C25_MusicKeptWhilePlaying == [][C25_Step]_vars

\* C26 as stated: an automatic exit from MUSIC clears the override, and from
\* then on, in an iteration that does not poll the music probe, lines 141-163
\* call toggle_mode no more: the mode, the confirmed gesture and
\* last_gesture_time stay as the exit (or the user since) left them.
C26_Step ==
    (pc = "music" /\ ~MusicCheckDue /\ ~music_mode_override)
        => /\ ~ToggleCalled
           /\ mode' = mode
           /\ current_gesture' = current_gesture
           /\ since_gesture' = since_gesture

C26_OneToggleForAutomaticExit == [][C26_Step]_vars

\* C27 as stated: the recorded mode-to-restore is never BROWSER or MUSIC, so
\* that nested automatic overrides unwind to the mode the user was in.
C27_RecordedModeIsManual == last_known_mode \notin {"BROWSER", "MUSIC"}

\* the click gestures of MOUSE and their actions
ClickOf(g) ==
    CASE g = "TWO" -> "mouse_click_left"
      [] g = "THREE" -> "mouse_click_right"
      [] g = "FOUR" -> "mouse_double_click"
      [] OTHER -> "None"

\* C28 as stated: in MOUSE every frame that confirms TWO, THREE or FOUR as a
\* new gesture has the executor carry out the click mapped to it, whatever
\* was executed on the frames before.
C28_Step ==
    (FrameStep /\ mode = "MOUSE" /\ ConfirmingStep
               /\ RawGesture \in {"TWO", "THREE", "FOUR"}
               /\ RawGesture # current_gesture)
        => performed' = ClickOf(RawGesture)

C28_NewClickIsExecuted == [][C28_Step]_vars

\* the gestures that start continuous scrolling in BROWSER
ScrollGestures == {"FIST", "THUMBS_UP"}

\* C30 as stated: a scroll event is sent only in BROWSER, and continuous
\* scrolling is off after every frame without a hand, every frame with an
\* unmatched shape, every frame that confirms a gesture other than FIST and
\* THUMBS_UP, and every frame handled in a mode other than BROWSER.
C30_Step ==
    FrameStep
        => /\ scrolled' => mode = "BROWSER"
           /\ finger_vector' = <<>> => browser_scroll_direction' = "None"
           /\ (finger_vector' # <<>> /\ NoTemplateFor(finger_vector'))
                 => browser_scroll_direction' = "None"
           /\ (ConfirmingStep /\ RawGesture \notin ScrollGestures)
                 => browser_scroll_direction' = "None"
           /\ mode # "BROWSER" => browser_scroll_direction' = "None"

C30_ScrollOnlyWhileHeld == [][C30_Step]_vars

\* the last two entries of h are g
EndsWithTwo(h, g) ==
    /\ Len(h) >= 2
    /\ h[Len(h)] = g /\ h[Len(h) - 1] = g

\* C29: on a frame handled while a gesture A is confirmed, a classification
\* as another template that is the first or the second in a row leaves A
\* confirmed and returns is_new = False, and a classification as A leaves A
\* confirmed and returns is_new = True only for ONE..FOUR in MAIN; so A shown
\* again after one or two frames of another template is never returned as new.
C29_Step ==
    (RawGestureStep /\ current_gesture # "None")
        => /\ (RawGesture # current_gesture /\ ~EndsWithTwo(gesture_history, RawGesture))
                 => /\ current_gesture' = current_gesture
                    /\ ~is_new_gesture'
           /\ RawGesture = current_gesture
                 => /\ current_gesture' = current_gesture
                    /\ is_new_gesture'
                          => (mode = "MAIN" /\ current_gesture \in MagnitudeGestures)

C29_NoiseKeepsConfirmed == [][C29_Step]_vars

\* C29 witness: PALM, confirmed before two frames of ONE, has just been shown
\* for the third frame in a row again; it is still the confirmed gesture and
\* is not returned as new.
C29_Witness ==
    /\ gesture_history = <<"ONE", "ONE", "PALM", "PALM", "PALM">>
    /\ current_gesture = "PALM"
    /\ ret_gesture = "PALM"
    /\ ~is_new_gesture
    /\ finger_vector = GESTURES["PALM"]
    /\ pc = "key"

====
